---- MODULE Spec2Model ----
(***************************************************************************)
(* motif_finder.py: fetch DNA sequences by accession, scan both strands    *)
(* for a motif and tabulate counts, positions, length and densities.       *)
(*                                                                         *)
(* Python strings are modelled as tuples of one-character strings, Python  *)
(* lists as tuples, and insertion-ordered dicts as tuples of <<key, value>>*)
(* pairs in insertion order.  All indices in the model are Python's        *)
(* zero-based indices.                                                     *)
(***************************************************************************)
EXTENDS Integers, Sequences, FiniteSets, TLC

VARIABLES
    pc,                 \* control point of the running function
    motif,              \* argument `motif`
    accessions,         \* argument `accessions`
    save,               \* argument `save`
    i,                  \* fetch_sequences_from_ncbi: number of accessions iterated
    log,                \* the remote service's answers, one per request made
    sequences,          \* fetch_sequences_from_ncbi: `results`, then `sequences`
    k,                  \* find_motif_in_sequence_list: number of items iterated
    results,            \* find_motif_in_sequence_list: `results`
    df,                 \* the returned DataFrame, as its rows in order
    csv,                \* rows written to motif_results.csv, or None
    seq,                \* find_motif_positions / reverse_complement: `seq`
    start,              \* find_motif_positions: `start`
    positions,          \* find_motif_positions: `positions`
    strand,             \* value passed through reverse_complement
    n,                  \* number of times reverse_complement was applied
    positions_forward,  \* line 122
    reverse_seq,        \* line 123
    positions_reverse   \* line 124

vars == <<pc, motif, accessions, save, i, log, sequences, k, results, df, csv,
          seq, start, positions, strand, n,
          positions_forward, reverse_seq, positions_reverse>>

pipeVars == <<accessions, save, i, log, sequences, k, results, df, csv>>
scanVars == <<start, positions>>
strandVars == <<strand, n, positions_forward, reverse_seq, positions_reverse>>

(***************************************************************************)
(* Bounds of the model.                                                    *)
(***************************************************************************)
MaxSeqLen == 4
MaxMotifLen == 2
MaxAccessions == 3

None == "None"

Bases == {"A", "T", "G", "C"}

RECURSIVE StringsUpTo(_)
StringsUpTo(len) ==
    IF len = 0 THEN {<<>>}
    ELSE LET shorter == StringsUpTo(len - 1)
         IN  shorter \cup {Append(s, c) : s \in {t \in shorter : Len(t) = len - 1}, c \in Bases}

Min(S) == CHOOSE x \in S : \A y \in S : x <= y

Range(s) == {s[x] : x \in DOMAIN s}

(***************************************************************************)
(* str.find(sub, start): the lowest index >= start at which sub occurs in  *)
(* s, or -1.  The empty sub occurs at every index 0..len(s).               *)
(***************************************************************************)
Slice(s, lo, hi) == SubSeq(s, lo + 1, hi)

str_find_nonempty(s, sub, from) ==
    LET hits == {p \in from .. (Len(s) - Len(sub)) : Slice(s, p, p + Len(sub)) = sub}
    IN  IF hits = {} \/ sub = <<>> THEN -1 ELSE Min(hits)

str_find(s, sub, from) ==
    LET hits == {p \in from .. (Len(s) - Len(sub)) : Slice(s, p, p + Len(sub)) = sub}
    IN  IF hits = {} THEN -1 ELSE Min(hits)

(***************************************************************************)
(* find_motif_positions, lines 63-71.                                      *)
(***************************************************************************)
AdvancePastMotif(index, m) == index + (IF Len(m) = 0 THEN 1 ELSE Len(m))

NextStart(index, m) == index + 1

RECURSIVE ScanFrom(_, _, _, _)
ScanFrom(s, m, from, found) ==
    LET index == str_find(s, m, from)
    IN  IF index = -1 THEN found
        ELSE ScanFrom(s, m, NextStart(index, m), Append(found, index))

find_motif_positions(s, m) == ScanFrom(s, m, 0, <<>>)

(***************************************************************************)
(* The scan loop of find_motif_positions, one iteration per step.          *)
(***************************************************************************)
ScanInit ==
    /\ pc = "scan"
    /\ seq \in StringsUpTo(MaxSeqLen)
    /\ motif \in StringsUpTo(MaxMotifLen)
    /\ start = 0
    /\ positions = <<>>
    /\ accessions = <<>> /\ save = FALSE /\ i = 0 /\ log = <<>>
    /\ sequences = <<>> /\ k = 0 /\ results = <<>> /\ df = None /\ csv = None
    /\ strand = <<>> /\ n = 0
    /\ positions_forward = None /\ reverse_seq = None /\ positions_reverse = None

ScanMatch ==
    /\ pc = "scan"
    /\ LET index == str_find(seq, motif, start)
       IN  /\ index # -1
           /\ positions' = Append(positions, index)
           /\ start' = NextStart(index, motif)
    /\ UNCHANGED <<pc, seq, motif>>
    /\ UNCHANGED pipeVars
    /\ UNCHANGED strandVars

ScanBreak ==
    /\ pc = "scan"
    /\ str_find(seq, motif, start) = -1
    /\ pc' = "return"
    /\ UNCHANGED <<seq, motif, start, positions>>
    /\ UNCHANGED pipeVars
    /\ UNCHANGED strandVars

ScanNext == ScanMatch \/ ScanBreak

ScanSpec == ScanInit /\ [][ScanNext]_vars

FairScanSpec == ScanInit /\ [][ScanNext]_vars /\ WF_vars(ScanNext)

(***************************************************************************)
(* reverse_complement, lines 88-89: str.maketrans, str.translate (a        *)
(* character without an entry in the table is kept), then [::-1].          *)
(***************************************************************************)
maketrans(x, y) == [c \in Range(x) |-> y[CHOOSE j \in DOMAIN x : x[j] = c]]

translate(s, table) ==
    [j \in 1 .. Len(s) |-> IF s[j] \in DOMAIN table THEN table[s[j]] ELSE s[j]]

Reversed(s) == [j \in 1 .. Len(s) |-> s[Len(s) + 1 - j]]

ComplementNotReversed(s) ==
    translate(s, maketrans(<<"A", "T", "G", "C">>, <<"T", "A", "C", "G">>))

SwapPurines(s) ==
    Reversed(translate(s, maketrans(<<"A", "T", "G", "C">>, <<"G", "A", "C", "T">>)))

reverse_complement(s) ==
    Reversed(translate(s, maketrans(<<"A", "T", "G", "C">>, <<"T", "A", "C", "G">>)))

(***************************************************************************)
(* reverse_complement applied to a sequence, and again to its result.      *)
(***************************************************************************)
ComplementInit ==
    /\ pc = "complement"
    /\ seq \in StringsUpTo(MaxSeqLen)
    /\ strand = seq
    /\ n = 0
    /\ motif = <<>> /\ start = 0 /\ positions = <<>>
    /\ accessions = <<>> /\ save = FALSE /\ i = 0 /\ log = <<>>
    /\ sequences = <<>> /\ k = 0 /\ results = <<>> /\ df = None /\ csv = None
    /\ positions_forward = None /\ reverse_seq = None /\ positions_reverse = None

Complement ==
    /\ pc = "complement"
    /\ n < 2
    /\ strand' = reverse_complement(strand)
    /\ n' = n + 1
    /\ UNCHANGED <<pc, seq, motif, positions_forward, reverse_seq, positions_reverse>>
    /\ UNCHANGED pipeVars
    /\ UNCHANGED scanVars

ComplementNext == Complement

ComplementSpec == ComplementInit /\ [][ComplementNext]_vars

(***************************************************************************)
(* dict: insertion-ordered; assigning to a key that is present keeps the   *)
(* key's place and replaces its value.                                     *)
(***************************************************************************)
Keys(d) == {d[j][1] : j \in DOMAIN d}

RECURSIVE Without(_, _)
Without(d, key) ==
    IF d = <<>> THEN <<>>
    ELSE IF Head(d)[1] = key THEN Without(Tail(d), key)
    ELSE <<Head(d)>> \o Without(Tail(d), key)

SetAndMoveToEnd(d, key, value) == Append(Without(d, key), <<key, value>>)

DictSet(d, key, value) ==
    IF key \in Keys(d)
    THEN [j \in DOMAIN d |-> IF d[j][1] = key THEN <<key, value>> ELSE d[j]]
    ELSE Append(d, <<key, value>>)

(***************************************************************************)
(* int / int: the quotient, kept exact as a fraction in lowest terms.      *)
(***************************************************************************)
RECURSIVE GCD(_, _)
GCD(a, b) == IF b = 0 THEN a ELSE GCD(b, a % b)

FloorDiv(a, b) == [num |-> a \div b, den |-> 1]

TrueDiv(a, b) ==
    IF a = 0 THEN [num |-> 0, den |-> 1]
    ELSE [num |-> a \div GCD(a, b), den |-> b \div GCD(a, b)]

(***************************************************************************)
(* One record of the result, lines 122-134.                                *)
(***************************************************************************)
RowOf(s, fwd, rev) ==
    [ count_forward |-> Len(fwd),
      positions_forward |-> fwd,
      count_reverse_complement |-> Len(rev),
      positions_reverse_complement |-> rev,
      length |-> Len(s),
      density_forward |-> TrueDiv(Len(fwd), Len(s)),
      density_reverse_complement |-> TrueDiv(Len(rev), Len(s)) ]

MakeRow(s, m) ==
    LET fwd == find_motif_positions(s, m)
        rseq == reverse_complement(s)
        rev == find_motif_positions(rseq, m)
    IN  RowOf(s, fwd, rev)

NeverSkip(s) == FALSE

not_seq(s) == Len(s) = 0

(***************************************************************************)
(* The two scans of one sequence, lines 122-124.                           *)
(***************************************************************************)
StrandInit ==
    /\ pc = "strands"
    /\ seq \in StringsUpTo(MaxSeqLen)
    /\ motif \in StringsUpTo(MaxMotifLen)
    /\ positions_forward = None /\ reverse_seq = None /\ positions_reverse = None
    /\ strand = <<>> /\ n = 0 /\ start = 0 /\ positions = <<>>
    /\ accessions = <<>> /\ save = FALSE /\ i = 0 /\ log = <<>>
    /\ sequences = <<>> /\ k = 0 /\ results = <<>> /\ df = None /\ csv = None

(* lines 122-124 *)
ScanStrands ==
    /\ pc = "strands"
    /\ positions_forward' = find_motif_positions(seq, motif)
    /\ reverse_seq' = reverse_complement(seq)
    /\ positions_reverse' = find_motif_positions(reverse_seq', motif)
    /\ pc' = "scanned"
    /\ UNCHANGED <<seq, motif, strand, n>>
    /\ UNCHANGED pipeVars
    /\ UNCHANGED scanVars

(* lines 126-134, reached for a non-empty sequence only (line 118) *)
Tabulate ==
    /\ pc = "scanned"
    /\ ~not_seq(seq)
    /\ results' = DictSet(results, "X1", RowOf(seq, positions_forward, positions_reverse))
    /\ pc' = "tabulated"
    /\ UNCHANGED <<seq, motif, strand, n, positions_forward, reverse_seq, positions_reverse>>
    /\ UNCHANGED <<accessions, save, i, log, sequences, k, df, csv>>
    /\ UNCHANGED scanVars

StrandNext == ScanStrands \/ Tabulate

StrandSpec == StrandInit /\ [][StrandNext]_vars

(***************************************************************************)
(* The remote service.  requests.get either raises or returns a response   *)
(* with a status code and a body; raise_for_status raises HTTPError for a  *)
(* status of 400 or more.  The bodies are FASTA text: a header line, then  *)
(* the bases over one or more lines.                                       *)
(***************************************************************************)
AccessionIds == {"X1", "X2"}

RECURSIVE ListsUpTo(_, _)
ListsUpTo(S, len) ==
    IF len = 0 THEN {<<>>}
    ELSE LET shorter == ListsUpTo(S, len - 1)
         IN  shorter \cup {Append(s, c) : s \in {t \in shorter : Len(t) = len - 1}, c \in S}

Bodies ==
    { <<>>,
      <<">", "h", "\n">>,
      <<">", "h", "\n", "G", "A", "A", "T", "T", "C", "\n", "G", "A", "A", "\n">>,
      <<">", "h", "\r", "\n", "A", "T", "\r", "\n", "N", "A", "T">> }

Responses ==
    { [raises |-> e, status_code |-> 0, text |-> <<>>] :
          e \in {"ConnectionError", "ContentDecodingError"} }
    \cup { [raises |-> None, status_code |-> 404, text |-> <<"E", "r", "r">>] }
    \cup { [raises |-> None, status_code |-> 200, text |-> b] : b \in Bodies }

HTTP_ERROR_MIN == 400

RequestException(r) == r.raises # None \/ r.status_code >= HTTP_ERROR_MIN

(***************************************************************************)
(* str.splitlines with the line boundaries \n, \r and \r\n; "".join.       *)
(***************************************************************************)
RECURSIVE SplitFrom(_, _, _, _)
SplitFrom(text, pos, cur, lines) ==
    IF pos > Len(text) THEN (IF cur = <<>> THEN lines ELSE Append(lines, cur))
    ELSE IF text[pos] = "\r" /\ pos < Len(text) /\ text[pos + 1] = "\n"
         THEN SplitFrom(text, pos + 2, <<>>, Append(lines, cur))
    ELSE IF text[pos] \in {"\n", "\r"}
         THEN SplitFrom(text, pos + 1, <<>>, Append(lines, cur))
    ELSE SplitFrom(text, pos + 1, Append(cur, text[pos]), lines)

splitlines(text) == SplitFrom(text, 1, <<>>, <<>>)

RECURSIVE join(_)
join(lines) == IF lines = <<>> THEN <<>> ELSE Head(lines) \o join(Tail(lines))

FromSecondLine(lines) == IF lines = <<>> THEN <<>> ELSE Tail(lines)

ParseFasta(text) == join(FromSecondLine(splitlines(text)))

(* pd.DataFrame.from_dict(results, orient="index"): one row per key, in    *)
(* the dict's order, the key as the row's index.                           *)
from_dict(d) == [j \in DOMAIN d |-> [index |-> d[j][1]] @@ d[j][2]]

(***************************************************************************)
(* find_motif_in_sequence_list(motif, accessions, save).                   *)
(***************************************************************************)
Motifs == { <<>>, <<"G", "A", "A">>, <<"A", "T">> }

Init ==
    /\ pc = "fetch"
    /\ motif \in Motifs
    /\ accessions \in ListsUpTo(AccessionIds, MaxAccessions)
    /\ save \in BOOLEAN
    /\ i = 0 /\ log = <<>> /\ sequences = <<>>
    /\ k = 0 /\ results = <<>> /\ df = None /\ csv = None
    /\ seq = <<>> /\ start = 0 /\ positions = <<>> /\ strand = <<>> /\ n = 0
    /\ positions_forward = None /\ reverse_seq = None /\ positions_reverse = None

idle == <<seq, start, positions, strand, n, positions_forward, reverse_seq,
          positions_reverse, motif, accessions, save>>

AbortBatch(idx) == Len(accessions)

(* line 38: `continue` goes on with the next accession *)
Continue(idx) == idx + 1

(* lines 24-38: the request raises; the accession is reported and skipped *)
FetchRaise ==
    /\ pc = "fetch"
    /\ i < Len(accessions)
    /\ \E response \in Responses :
          /\ RequestException(response)
          /\ log' = Append(log, response)
    /\ i' = Continue(i)
    /\ UNCHANGED <<pc, sequences, k, results, df, csv>>
    /\ UNCHANGED idle

(* lines 24-43: the request succeeds; the body is stored under the accession *)
FetchStore ==
    /\ pc = "fetch"
    /\ i < Len(accessions)
    /\ \E response \in Responses :
          /\ ~RequestException(response)
          /\ log' = Append(log, response)
          /\ sequences' = DictSet(sequences, accessions[i + 1], ParseFasta(response.text))
    /\ i' = i + 1
    /\ UNCHANGED <<pc, k, results, df, csv>>
    /\ UNCHANGED idle

(* line 44, line 115 *)
FetchReturn ==
    /\ pc = "fetch"
    /\ i = Len(accessions)
    /\ pc' = "aggregate"
    /\ UNCHANGED <<i, log, sequences, k, results, df, csv>>
    /\ UNCHANGED idle

(* lines 116-120 *)
AggregateSkip ==
    /\ pc = "aggregate"
    /\ k < Len(sequences)
    /\ not_seq(sequences[k + 1][2])
    /\ k' = k + 1
    /\ UNCHANGED <<pc, i, log, sequences, results, df, csv>>
    /\ UNCHANGED idle

(* lines 116-134; len(seq) = 0 at line 132 raises ZeroDivisionError *)
AggregateRow ==
    /\ pc = "aggregate"
    /\ k < Len(sequences)
    /\ ~not_seq(sequences[k + 1][2])
    /\ IF Len(sequences[k + 1][2]) = 0
       THEN /\ pc' = "ZeroDivisionError"
            /\ UNCHANGED <<k, results>>
       ELSE /\ results' = DictSet(results, sequences[k + 1][1],
                                  MakeRow(sequences[k + 1][2], motif))
            /\ k' = k + 1
            /\ pc' = pc
    /\ UNCHANGED <<i, log, sequences, df, csv>>
    /\ UNCHANGED idle

(* lines 136-141 *)
BuildTable ==
    /\ pc = "aggregate"
    /\ k = Len(sequences)
    /\ df' = from_dict(results)
    /\ csv' = IF save THEN df' ELSE csv
    /\ pc' = "done"
    /\ UNCHANGED <<i, log, sequences, k, results>>
    /\ UNCHANGED idle

Next ==
    \/ FetchRaise
    \/ FetchStore
    \/ FetchReturn
    \/ AggregateSkip
    \/ AggregateRow
    \/ BuildTable

Spec == Init /\ [][Next]_vars

(***************************************************************************)
(*                              Properties                                 *)
(***************************************************************************)
Occurrences(s, m) == {p \in 0 .. (Len(s) - Len(m)) : Slice(s, p, p + Len(m)) = m}

StrictlyIncreasing(t) == \A a, b \in DOMAIN t : a < b => t[a] < t[b]

Retrieved(acc) ==
    \E j \in DOMAIN log : accessions[j] = acc /\ log[j].raises = None /\ log[j].status_code = 200

FirstRetrieval(acc) ==
    Min({j \in DOMAIN log : accessions[j] = acc /\ log[j].raises = None /\ log[j].status_code = 200})

LastRetrieval(acc) ==
    CHOOSE j \in DOMAIN log :
        /\ accessions[j] = acc /\ log[j].raises = None /\ log[j].status_code = 200
        /\ \A h \in DOMAIN log :
              (accessions[h] = acc /\ log[h].raises = None /\ log[h].status_code = 200) => h <= j

RetrievalFailed(r) ==
    \/ r.raises = "ConnectionError"         \* network error
    \/ r.raises = "ContentDecodingError"    \* malformed response
    \/ r.status_code = 404                  \* not found

DictGet(d, key) == d[CHOOSE j \in DOMAIN d : d[j][1] = key][2]

SameQuotient(density, count, length) ==
    /\ density.den > 0
    /\ density.num * length = count * density.den

(* C1: when find_motif_positions returns, positions holds exactly the      *)
(* indices p in 0..len(S)-len(M) with S[p:p+len(M)] = M, each once, in     *)
(* strictly increasing order; "AA" in "AAA" gives [0, 1]; no occurrence,   *)
(* or a motif longer than S, gives the empty list.                         *)
C1_ExactOccurrences ==
    pc = "return" =>
        /\ StrictlyIncreasing(positions)
        /\ Range(positions) = Occurrences(seq, motif)
        /\ Len(positions) = Cardinality(Occurrences(seq, motif))
        /\ (seq = <<"A", "A", "A">> /\ motif = <<"A", "A">> => positions = <<0, 1>>)
        /\ (Len(motif) > Len(seq) => positions = <<>>)
        /\ (Occurrences(seq, motif) = {} => positions = <<>>)
        /\ positions = find_motif_positions(seq, motif)

C1_Witness ==
    /\ pc = "return"
    /\ seq = <<"A", "A", "A">>
    /\ motif = <<"A", "A">>
    /\ positions = <<0, 1>>

(* C9: the scan loop terminates; on each match the cursor becomes the      *)
(* match index plus exactly 1 and so strictly increases; the loop exits at *)
(* the first search that finds nothing; at most len(seq)+1 matches are     *)
(* recorded, the empty motif included.                                     *)
C9_ScanTerminates ==
    /\ <>(pc = "return")
    /\ [](Len(positions) <= Len(seq) + 1)
    /\ [][(pc = "scan" /\ str_find(seq, motif, start) # -1) =>
             /\ pc' = "scan"
             /\ positions' = Append(positions, str_find(seq, motif, start))
             /\ start' = str_find(seq, motif, start) + 1
             /\ start' > start]_vars
    /\ [][(pc = "scan" /\ str_find(seq, motif, start) = -1) =>
             /\ pc' = "return"
             /\ positions' = positions]_vars

C9_Witness ==
    /\ pc = "return"
    /\ motif = <<>>
    /\ Len(seq) >= 3
    /\ Len(positions) = Len(seq) + 1

(* C5: reverse_complement keeps the length, maps "ATGC" to "GCAT", and     *)
(* applied twice gives the sequence back.                                  *)
C5_Involution ==
    /\ n = 1 => /\ Len(strand) = Len(seq)
                /\ (seq = <<"A", "T", "G", "C">> => strand = <<"G", "C", "A", "T">>)
    /\ n = 2 => strand = seq

C5_Witness ==
    /\ n = 2
    /\ seq = <<"A", "T", "G", "C">>
    /\ strand = seq

(* C8 as stated: the empty motif gives no positions, so count 0 and        *)
(* density 0 on both strands of every row.                                 *)
C8_EmptyMotifNoPositions ==
    motif = <<>> =>
        /\ pc \in {"scanned", "tabulated"} =>
              positions_forward = <<>> /\ positions_reverse = <<>>
        /\ pc = "tabulated" =>
              \A j \in DOMAIN results :
                  /\ results[j][2].count_forward = 0
                  /\ results[j][2].count_reverse_complement = 0
                  /\ results[j][2].density_forward.num = 0
                  /\ results[j][2].density_reverse_complement.num = 0

(* C8 amended: the empty motif is found at every index 0..len(S), so it    *)
(* gives len(S)+1 positions and, in a row, count len(S)+1 and density      *)
(* (len(S)+1)/len(S) on both strands.                                      *)
C8_EmptyMotifEveryIndex ==
    motif = <<>> =>
        /\ pc \in {"scanned", "tabulated"} =>
              /\ positions_forward = [j \in 1 .. Len(seq) + 1 |-> j - 1]
              /\ positions_reverse = [j \in 1 .. Len(seq) + 1 |-> j - 1]
        /\ pc = "tabulated" =>
              \A j \in DOMAIN results :
                  /\ results[j][2].count_forward = Len(seq) + 1
                  /\ results[j][2].count_reverse_complement = Len(seq) + 1
                  /\ SameQuotient(results[j][2].density_forward, Len(seq) + 1, Len(seq))
                  /\ SameQuotient(results[j][2].density_reverse_complement, Len(seq) + 1, Len(seq))

C8_Witness ==
    /\ pc = "tabulated"
    /\ motif = <<>>
    /\ Len(seq) = 3
    /\ results[1][2].count_forward = 4
    /\ results[1][2].density_forward = [num |-> 4, den |-> 3]

(* C10: for a non-empty motif M and a sequence S of length L, p is a       *)
(* position of M on reverse_complement(S) exactly when L - len(M) - p is a *)
(* position of reverse_complement(M) on S; the reverse count for M is the  *)
(* forward count of reverse_complement(M); a motif that is its own reverse *)
(* complement has equal counts on both strands of a row.                   *)
C10_StrandSymmetry ==
    (motif # <<>> /\ pc \in {"scanned", "tabulated"}) =>
        LET mirrored == find_motif_positions(seq, reverse_complement(motif))
        IN  /\ \A p \in (0 - Len(seq) - 1) .. (Len(seq) + 1) :
                  (p \in Range(positions_reverse))
                      <=> ((Len(seq) - Len(motif) - p) \in Range(mirrored))
            /\ Len(positions_reverse) = Len(mirrored)
            /\ \A j \in DOMAIN results :
                  /\ results[j][2].count_reverse_complement = Len(mirrored)
                  /\ (reverse_complement(motif) = motif =>
                        results[j][2].count_forward = results[j][2].count_reverse_complement)

C10_Witness ==
    /\ pc = "tabulated"
    /\ motif = <<"A", "T">>
    /\ seq = <<"C", "A", "T", "G">>
    /\ results[1][2].count_forward = 1
    /\ results[1][2].count_reverse_complement = 1

Scenario ==
    /\ pc = "done"
    /\ motif = <<"G", "A", "A">>
    /\ accessions = <<"X1", "X2">>
    /\ sequences = << <<"X1", <<"G", "A", "A", "T", "T", "C", "G", "A", "A">> >>,
                      <<"X2", <<>> >> >>

(* C2 as stated: motif "GAA", accessions ["X1", "X2"], the source giving   *)
(* {"X1": "GAATTCGAA", "X2": ""}: one row, for "X1", count_forward 2,      *)
(* positions_forward [0, 6], length 9, density_forward 2/9, reverse        *)
(* complement "TTCGAATTC", positions_reverse_complement [4],               *)
(* count_reverse_complement 1; no row for "X2".                            *)
C2_EndToEndAsStated ==
    Scenario =>
        /\ Len(df) = 1
        /\ df[1].index = "X1"
        /\ df[1].count_forward = 2
        /\ df[1].positions_forward = <<0, 6>>
        /\ df[1].length = 9
        /\ SameQuotient(df[1].density_forward, 2, 9)
        /\ reverse_complement(sequences[1][2]) = <<"T", "T", "C", "G", "A", "A", "T", "T", "C">>
        /\ df[1].positions_reverse_complement = <<4>>
        /\ df[1].count_reverse_complement = 1

(* C2 amended: the same scenario, with positions_reverse_complement [3]:   *)
(* "GAA" starts at index 3 of "TTCGAATTC".                                 *)
C2_EndToEnd ==
    Scenario =>
        /\ Len(df) = 1
        /\ df[1].index = "X1"
        /\ df[1].count_forward = 2
        /\ df[1].positions_forward = <<0, 6>>
        /\ df[1].length = 9
        /\ SameQuotient(df[1].density_forward, 2, 9)
        /\ reverse_complement(sequences[1][2]) = <<"T", "T", "C", "G", "A", "A", "T", "T", "C">>
        /\ df[1].positions_reverse_complement = <<3>>
        /\ df[1].count_reverse_complement = 1

C2_Witness ==
    /\ Scenario
    /\ Len(df) = 1
    /\ df[1].index = "X1"

(* C3: no row exists for an accession that was never retrieved or whose    *)
(* sequence in the fetched mapping is empty; every row has length >= 1 and *)
(* the density division never divides by zero.                             *)
C3_NoRowForEmptyOrFailed ==
    /\ pc # "ZeroDivisionError"
    /\ \A j \in DOMAIN results :
          /\ Retrieved(results[j][1])
          /\ ParseFasta(log[LastRetrieval(results[j][1])].text) # <<>>
          /\ results[j][2].length >= 1
          /\ results[j][2].density_forward.den >= 1
          /\ results[j][2].density_reverse_complement.den >= 1
    /\ pc = "done" =>
          \A j \in DOMAIN df :
              /\ Retrieved(df[j].index)
              /\ ParseFasta(log[LastRetrieval(df[j].index)].text) # <<>>
              /\ df[j].length >= 1

C3_Witness ==
    /\ pc = "done"
    /\ Len(df) >= 1
    /\ \E j \in DOMAIN sequences :
          /\ sequences[j][2] = <<>>
          /\ \A h \in DOMAIN df : df[h].index # sequences[j][1]
    /\ \E j \in DOMAIN log : RetrievalFailed(log[j])

(* C4: a failed retrieval (network error, malformed response, not found)   *)
(* adds nothing to the mapping and the loop goes on: every accession of    *)
(* the list is attempted, an accession no attempt of which succeeded is    *)
(* not a key, and every accession with a successful attempt is a key.      *)
C4_FailureSkipsOnlyThatAccession ==
    /\ Len(log) = i
    /\ pc # "fetch" => Len(log) = Len(accessions)
    /\ \A j \in DOMAIN log :
          (~RetrievalFailed(log[j])) => accessions[j] \in Keys(sequences)
    /\ \A acc \in Range(accessions) :
          (\A j \in DOMAIN log : accessions[j] = acc => RetrievalFailed(log[j]))
              => acc \notin Keys(sequences)
    /\ Keys(sequences) \subseteq Range(accessions)

C4_Witness ==
    /\ pc = "done"
    /\ Len(accessions) = 3
    /\ RetrievalFailed(log[1])
    /\ ~RetrievalFailed(log[2])
    /\ ~RetrievalFailed(log[3])
    /\ accessions[1] \notin Keys(sequences)
    /\ accessions[3] \in Keys(sequences)

RowConsistent(acc, row) ==
    /\ row.count_forward = Len(row.positions_forward)
    /\ row.count_reverse_complement = Len(row.positions_reverse_complement)
    /\ \A p \in Range(row.positions_forward) \cup Range(row.positions_reverse_complement) :
          0 <= p /\ p <= row.length - Len(motif)
    /\ acc \in Keys(sequences)
    /\ row.length = Len(DictGet(sequences, acc))
    /\ SameQuotient(row.density_forward, row.count_forward, row.length)
    /\ SameQuotient(row.density_reverse_complement, row.count_reverse_complement, row.length)

(* C6: in every row, on both strands, count is the number of listed        *)
(* positions, every position p has 0 <= p <= length - len(motif), length   *)
(* is the length of the fetched sequence, and density is count / length.   *)
C6_RowsConsistent ==
    /\ \A j \in DOMAIN results : RowConsistent(results[j][1], results[j][2])
    /\ pc = "done" => \A j \in DOMAIN df : RowConsistent(df[j].index, df[j])

C6_Witness ==
    /\ pc = "done"
    /\ \E j \in DOMAIN df :
          /\ df[j].count_forward = 2
          /\ df[j].count_reverse_complement = 1
          /\ df[j].length = 9
          /\ df[j].density_forward = [num |-> 2, den |-> 9]

(* C7: the rows are in the order in which their accessions were first      *)
(* successfully retrieved, without the accessions that failed or whose     *)
(* sequence is empty, and each accession has at most one row.              *)
C7_RowOrder ==
    pc = "done" =>
        /\ \A a, b \in DOMAIN df : a # b => df[a].index # df[b].index
        /\ \A a \in DOMAIN df : Retrieved(df[a].index)
        /\ \A a, b \in DOMAIN df :
              a < b => FirstRetrieval(df[a].index) < FirstRetrieval(df[b].index)
        /\ {df[a].index : a \in DOMAIN df} =
              {acc \in Range(accessions) :
                  Retrieved(acc) /\ ParseFasta(log[LastRetrieval(acc)].text) # <<>>}

C7_Witness ==
    /\ pc = "done"
    /\ accessions = <<"X1", "X2", "X1">>
    /\ \A j \in DOMAIN log : ~RetrievalFailed(log[j])
    /\ Len(df) = 2
    /\ df[1].index = "X1"
    /\ df[2].index = "X2"

====
